---- MODULE Spec2Model ----
(***************************************************************************)
(* Multipart image upload of air_sdk (helpers/image_upload.py).            *)
(*                                                                         *)
(*   SpecPlan  calculate_parts_info applied to bounded inputs              *)
(*   SpecPart  one invocation of upload_single_part, attempt by attempt    *)
(*   Spec      upload_image: start-upload, planning, sequential or pooled  *)
(*             part uploads, complete-upload, abort-upload on failure      *)
(***************************************************************************)
EXTENDS Integers, Sequences, FiniteSets, TLC

VARIABLES
    \* ---- calculate_parts_info (SpecPlan) ----
    pl_in,          \* [file_size, num_parts, chunk_size] the call's arguments
    pl_out,         \* the call's outcome, NoPlan before the call
    \* ---- upload_single_part (SpecPart) ----
    sp_part_number, \* the part_number argument
    sp_max_retries, \* the max_retries argument
    sp_attempt,     \* the loop variable `attempt`
    sp_puts,        \* number of requests.put calls made so far
    sp_sleeps,      \* the time.sleep durations, in call order
    sp_outcomes,    \* the outcome of every attempt so far, in order
    sp_result,      \* "running", "returned" or "raised"
    sp_value,       \* the returned dict or the raised exception
    \* ---- upload_image (Spec) ----
    pc,             \* position of the calling thread in upload_image
    file_size,      \* os.path.getsize(filepath)
    max_workers,    \* the max_workers argument
    upload_id,      \* response_data.get('upload_id')
    part_urls,      \* response_data.get('part_urls', [])
    chunk_size,     \* response_data.get('chunk_size', MULTIPART_CHUNK_SIZE)
    parts_info,     \* result of calculate_parts_info
    futures,        \* part_number -> state of that part's upload_single_part call
    uploaded_parts, \* the uploaded_parts list of upload_parts_to_s3
    failed_parts,   \* the failed_parts list of upload_parts_to_s3
    requests,       \* PATCH requests sent to the backend, in order
    exc,            \* the exception propagating in upload_image, NoExc if none
    warnings,       \* warnings issued by abort_multipart_upload
    result,         \* [status, exc]: how upload_image ended
    image_status,   \* upload status shown by the caller's Image object
    backend_status, \* upload status of the image on the backend
    \* ---- ImageEndpointAPI.create_v3 / upload_v3 (SpecApi) ----
    api_op,         \* the method called: "create_v3" or "upload_v3"
    api_image,      \* form of the image argument: "Image", "PrimaryKey", "none"
    api_filepath,   \* what the filepath argument names on disk, "None" if absent
    api_max_workers,\* the max_workers argument
    api_pc,         \* position of the caller in create_v3 / upload_v3
    api_requests,   \* HTTP requests issued so far, in order
    api_warnings,   \* warnings issued by upload_v3
    api_result,     \* [status, exc]: how the call ended
    \* ---- FilePartReader in one upload_single_part call (SpecReader) ----
    rd_file_len,    \* length of the file on disk
    rd_reader,      \* the FilePartReader of the current attempt
    rd_pos,         \* position of the reader's file handle
    rd_delivered,   \* bytes returned by read() in the current attempt
    rd_last,        \* the last read() call: [n, len, before]
    rd_attempt,     \* attempts started so far
    rd_open,        \* file handles currently open
    rd_pc           \* "idle", "reading", or how the last attempt ended

plan_vars == <<pl_in, pl_out>>
part_vars == <<sp_part_number, sp_max_retries, sp_attempt, sp_puts, sp_sleeps, sp_outcomes,
               sp_result, sp_value>>
img_vars  == <<pc, file_size, max_workers, upload_id, part_urls, chunk_size,
               parts_info, futures, uploaded_parts, failed_parts, requests,
               exc, warnings, result>>
api_vars  == <<api_op, api_image, api_filepath, api_max_workers, api_pc,
               api_requests, api_warnings, api_result>>
snap_vars == <<image_status, backend_status>>
rd_vars   == <<rd_file_len, rd_reader, rd_pos, rd_delivered, rd_last,
               rd_attempt, rd_open, rd_pc>>
vars == <<plan_vars, part_vars, img_vars, snap_vars, api_vars, rd_vars>>

----------------------------------------------------------------------------
\* Program constants (air_sdk/const.py)

DEFAULT_RETRY_ATTEMPTS == 5
DEFAULT_RETRY_BACKOFF_FACTOR == 1
MULTIPART_CHUNK_SIZE == 100000000
MULTIPART_MIN_PART_SIZE == 5 * 1024 * 1024
MAX_RECOMMENDED_UPLOAD_WORKERS == 10

\* Bounds of the model
MaxParts == 3        \* largest part count the backend answers with
MaxRetries == 5      \* largest max_retries argument tried in SpecPart
MaxWorkers == 3      \* largest max_workers argument
MaxFileLen == 4      \* longest file read through a FilePartReader
MaxPartLen == 3      \* largest size argument of a FilePartReader
MaxAttempts == 2     \* attempts of one upload_single_part call in SpecReader

----------------------------------------------------------------------------
\* Generic helpers

Max(a, b) == IF a >= b THEN a ELSE b

RECURSIVE Pow2(_)
Pow2(n) == IF n <= 0 THEN 1 ELSE 2 * Pow2(n - 1)

RECURSIVE SumSizes(_)
SumSizes(s) == IF s = <<>> THEN 0 ELSE Head(s).size + SumSizes(Tail(s))

Count(seq, op) == Cardinality({i \in 1..Len(seq) : seq[i].op = op})

----------------------------------------------------------------------------
\* Exceptions: [type, status, detail]

Exception(type, status, detail) ==
    [type |-> type, status |-> status, detail |-> detail]

NoExc == Exception("none", 0, "")

\* AirUnexpectedResponse(message=res.text, status_code=res.status_code)
AirUnexpectedResponse(status, detail) ==
    Exception("AirUnexpectedResponse", status, detail)

\* raise_if_invalid_response(res, status_code=expected, data_type=None):
\* the exception it raises, NoExc when it returns
RaiseIfInvalidResponse(status, expected) ==
    IF status # expected
    THEN AirUnexpectedResponse(status, "unexpected_status")
    ELSE NoExc

----------------------------------------------------------------------------
\* calculate_parts_info (image_upload.py 331-387)

\* no call made yet: differs from every outcome of a call
NoPlan == [ok |-> FALSE, parts |-> <<>>, err |-> NoExc]

\* start = i * chunk_size, i the 0-based index
PartStart_OneBased(i, csize) == (i + 1) * csize

\* line 355: start = i * chunk_size
PartStart(i, csize) == i * csize

\* mutant of PartSize: the last part is cut to one chunk
PartSize_LastCapped(i, fsize, nparts, csize) ==
    IF i = nparts - 1 /\ fsize - i * csize <= csize THEN fsize - i * csize
    ELSE csize

\* mutant of PartSize: the last part is given a full chunk too
PartSize_NoRemainder(i, fsize, nparts, csize) == csize

\* size of part i: the last part gets whatever remains
PartSize(i, fsize, nparts, csize) ==
    IF i = nparts - 1 THEN fsize - PartStart(i, csize) ELSE csize

\* mutant of PartSizeError: the storage minimum is applied to the last part too
PartSizeError_MinOnLast(i, nparts, size) ==
    IF size <= 0
    THEN AirUnexpectedResponse(i + 1, "invalid_size")
    ELSE IF size < MULTIPART_MIN_PART_SIZE
         THEN AirUnexpectedResponse(i + 1, "below_minimum")
         ELSE NoExc

\* mutant of PartSizeError: an empty part is accepted (size < 0 for size <= 0)
PartSizeError_ZeroAccepted(i, nparts, size) ==
    IF size < 0
    THEN AirUnexpectedResponse(i + 1, "invalid_size")
    ELSE IF i # nparts - 1 /\ size < MULTIPART_MIN_PART_SIZE
         THEN AirUnexpectedResponse(i + 1, "below_minimum")
         ELSE NoExc

\* the two validations of one part: the exception raised, NoExc if none
PartSizeError(i, nparts, size) ==
    IF size <= 0
    THEN AirUnexpectedResponse(i + 1, "invalid_size")
    ELSE IF i # nparts - 1 /\ size < MULTIPART_MIN_PART_SIZE
         THEN AirUnexpectedResponse(i + 1, "below_minimum")
         ELSE NoExc

\* the for loop, from index i on with the parts appended so far
RECURSIVE PartsLoop(_, _, _, _, _)
PartsLoop(i, fsize, nparts, csize, acc) ==
    IF i >= nparts
    THEN [ok |-> TRUE, parts |-> acc, err |-> NoExc]
    ELSE LET size == PartSize(i, fsize, nparts, csize)
             err  == PartSizeError(i, nparts, size)
         IN  IF err # NoExc
             THEN [ok |-> FALSE, parts |-> <<>>, err |-> err]
             ELSE PartsLoop(i + 1, fsize, nparts, csize,
                      Append(acc, [part_number |-> i + 1,
                                   start |-> PartStart(i, csize),
                                   size |-> size]))

calculate_parts_info(fsize, nparts, csize) ==
    IF nparts = 0
    THEN [ok |-> TRUE, parts |-> <<>>, err |-> NoExc]
    ELSE PartsLoop(0, fsize, nparts, csize, <<>>)

\* Inputs of SpecPlan: chunk sizes around 0 and around the storage minimum,
\* file sizes around every multiple of a chunk size
PlanChunkSizes ==
    {-1, 0, 1, 2, MULTIPART_MIN_PART_SIZE - 1, MULTIPART_MIN_PART_SIZE,
     MULTIPART_MIN_PART_SIZE + 1}
PlanFileSizes ==
    {f \in {k * c + d : k \in 0..MaxParts, c \in PlanChunkSizes, d \in -1..1} :
        f >= 0}

PlanInit ==
    /\ pl_in \in [file_size : PlanFileSizes, num_parts : 0..MaxParts,
                  chunk_size : PlanChunkSizes]
    /\ pl_out = NoPlan

\* one call of calculate_parts_info
Plan ==
    /\ pl_out = NoPlan
    /\ pl_out' = calculate_parts_info(pl_in.file_size, pl_in.num_parts,
                                       pl_in.chunk_size)
    /\ UNCHANGED pl_in
    /\ UNCHANGED <<rd_vars, part_vars, img_vars, api_vars, snap_vars>>

----------------------------------------------------------------------------
\* upload_single_part (image_upload.py 85-198)

Q == "\""    \* the double quote character

\* str.strip('"'): drop every leading and every trailing quote
RECURSIVE LStrip(_)
LStrip(s) == IF s # <<>> /\ Head(s) = Q THEN LStrip(Tail(s)) ELSE s
RECURSIVE RStrip(_)
RStrip(s) ==
    IF s # <<>> /\ s[Len(s)] = Q THEN RStrip(SubSeq(s, 1, Len(s) - 1)) ELSE s
Strip(s) == RStrip(LStrip(s))

\* exceptions caught by the first except clause (157-161)
RetryableExceptions == {"ConnectionError", "Timeout", "ChunkedEncodingError"}
\* an exception of any other class, e.g. the file cannot be opened
OtherExceptions == {"OSError"}
\* status codes checked at line 141
RetryableStatuses == {429, 502, 503, 504}
Statuses == {200, 204, 403, 500} \cup RetryableStatuses
\* values of the ETag response header; <<>> is a missing header
ETagHeaders ==
    {<< >>, <<Q, Q>>, <<Q, "a", Q>>, <<"b">>, <<Q, "a">>, <<"a", Q, "b">>}

\* what one requests.put inside the with block can end in
PutOutcomes ==
    [kind : {"exception"}, exc : RetryableExceptions \cup OtherExceptions,
     status : {0}, header : {<< >>}]
    \cup [kind : {"response"}, exc : {""}, status : Statuses \ {200},
          header : {<< >>}]
    \cup [kind : {"response"}, exc : {""}, status : {200}, header : ETagHeaders]

\* mutant of IsRetryableStatus: every status but 200 is retried
IsRetryableStatus_AnyError(status) == status # 200

IsRetryableStatus(status) == status \in RetryableStatuses

\* mutant of IsRetryableException: Timeout is missing from the except clause
IsRetryableException_NoTimeout(name) ==
    name \in RetryableExceptions \ {"Timeout"}

IsRetryableException(name) == name \in RetryableExceptions

\* retry_reason is set by this attempt (lines 141-142, 157-163)
IsRetryable(o) ==
    IF o.kind = "exception" THEN IsRetryableException(o.exc)
    ELSE IsRetryableStatus(o.status)

\* mutant of WaitTime: linear instead of exponential backoff
WaitTime_Linear(attempt) == DEFAULT_RETRY_BACKOFF_FACTOR * 2 * attempt

\* wait_time = DEFAULT_RETRY_BACKOFF_FACTOR * (2**attempt)
WaitTime(attempt) == DEFAULT_RETRY_BACKOFF_FACTOR * Pow2(attempt)

\* lines 193-198: the code after the for loop (last_exception is None there)
AfterLoopError == AirUnexpectedResponse(0, "failed_after_attempts")

\* mutant of RetryOrRaise: after the last attempt a retryable HTTP status
\* raises the generic error of line 196 instead of the invalid-response error
RetryOrRaise_GenericError(attempt, max_retries, o) ==
    IF attempt < max_retries - 1
    THEN [next |-> "continue", sleep |-> <<WaitTime(attempt)>>,
          etag |-> << >>, exc |-> NoExc]
    ELSE [next |-> "raise", sleep |-> << >>, etag |-> << >>,
          exc |-> IF o.kind = "exception" THEN Exception(o.exc, 0, "")
                  ELSE AfterLoopError]

\* lines 171-191: retry_reason is set; sleep and continue, or raise
RetryOrRaise(attempt, max_retries, o) ==
    IF attempt < max_retries - 1
    THEN [next |-> "continue", sleep |-> <<WaitTime(attempt)>>,
          etag |-> << >>, exc |-> NoExc]
    ELSE LET e == IF o.kind = "exception"
                  THEN Exception(o.exc, 0, "")
                  ELSE RaiseIfInvalidResponse(o.status, 200)
         IN  [next |-> "raise", sleep |-> << >>, etag |-> << >>,
              exc |-> IF e # NoExc THEN e ELSE AfterLoopError]

\* one iteration of the for loop (124-191) whose PUT ended in outcome o
AttemptStep(attempt, max_retries, o) ==
    IF IsRetryable(o)
    THEN RetryOrRaise(attempt, max_retries, o)
    ELSE IF o.kind = "exception"
    THEN [next |-> "raise", sleep |-> << >>, etag |-> << >>,
          exc |-> Exception(o.exc, 0, "")]
    ELSE IF RaiseIfInvalidResponse(o.status, 200) # NoExc
    THEN [next |-> "raise", sleep |-> << >>, etag |-> << >>,
          exc |-> RaiseIfInvalidResponse(o.status, 200)]
    ELSE IF Strip(o.header) = << >>
    THEN [next |-> "raise", sleep |-> << >>, etag |-> << >>,
          exc |-> AirUnexpectedResponse(0, "no_etag")]
    ELSE [next |-> "return", sleep |-> << >>, etag |-> Strip(o.header),
          exc |-> NoExc]

PartInit ==
    /\ sp_part_number \in {1, MaxParts}
    /\ sp_max_retries \in 0..MaxRetries
    /\ sp_attempt = 0
    /\ sp_puts = 0
    /\ sp_sleeps = << >>
    /\ sp_outcomes = << >>
    /\ sp_result = "running"
    /\ sp_value = [part_number |-> 0, etag |-> << >>, exc |-> NoExc]

\* one iteration of the for loop of upload_single_part
SinglePartAttempt ==
    /\ sp_result = "running"
    /\ sp_attempt < sp_max_retries
    /\ \E o \in PutOutcomes :
         LET r == AttemptStep(sp_attempt, sp_max_retries, o)
         IN  /\ sp_puts' = sp_puts + 1
             /\ sp_outcomes' = Append(sp_outcomes, o)
             /\ sp_sleeps' = sp_sleeps \o r.sleep
             /\ sp_attempt' = IF r.next = "continue" THEN sp_attempt + 1
                              ELSE sp_attempt
             /\ sp_result' = CASE r.next = "continue" -> "running"
                               [] r.next = "return" -> "returned"
                               [] OTHER -> "raised"
             /\ sp_value' = [part_number |-> IF r.next = "return"
                                              THEN sp_part_number ELSE 0,
                              etag |-> r.etag, exc |-> r.exc]
    /\ UNCHANGED <<sp_part_number, sp_max_retries>>
    /\ UNCHANGED <<rd_vars, plan_vars, img_vars, api_vars, snap_vars>>

\* range(max_retries) is exhausted without a return or raise: lines 193-198
SinglePartLoopEnd ==
    /\ sp_result = "running"
    /\ sp_attempt >= sp_max_retries
    /\ sp_result' = "raised"
    /\ sp_value' = [part_number |-> 0, etag |-> << >>, exc |-> AfterLoopError]
    /\ UNCHANGED <<sp_part_number, sp_max_retries, sp_attempt, sp_puts, sp_sleeps, sp_outcomes>>
    /\ UNCHANGED <<rd_vars, plan_vars, img_vars, api_vars, snap_vars>>

----------------------------------------------------------------------------
\* upload_image (image_upload.py 390-507) and what it calls

\* Inputs of Spec
MainFileSizes == {0} \cup {(k - 1) * MULTIPART_MIN_PART_SIZE + 1 : k \in 1..MaxParts}
MainChunkSizes == {1, MULTIPART_MIN_PART_SIZE, MULTIPART_CHUNK_SIZE}
UploadIds == {"", "u1"}     \* "" stands for a missing or empty upload_id
\* outcomes of a part PUT in Spec: one of each class of PutOutcomes
MainPutOutcomes ==
    {o \in PutOutcomes :
        /\ o.exc \in {"", "Timeout", "OSError"}
        /\ o.status \in {0, 200, 403, 503}
        /\ o.header \in {<< >>, <<Q, "a", Q>>, <<"b">>}}
\* outcomes of a PATCH to the backend: an exception, or a response with a
\* status code and a JSON body that is a dict or not
PatchOutcomes(good) ==
    [kind : {"exception"}, exc : {"ConnectionError"}, status : {0}, dict : {FALSE}]
    \cup [kind : {"response"}, exc : {""}, status : {good}, dict : BOOLEAN]
    \cup [kind : {"response"}, exc : {""}, status : {500}, dict : {TRUE}]

\* the exception a PATCH followed by raise_if_invalid_response(res, expected,
\* data_type=dict) ends in, NoExc if none (utils.py 337-365)
PatchError(o, expected) ==
    IF o.kind = "exception" THEN Exception(o.exc, 0, "")
    ELSE IF RaiseIfInvalidResponse(o.status, expected) # NoExc
    THEN RaiseIfInvalidResponse(o.status, expected)
    ELSE IF ~o.dict THEN AirUnexpectedResponse(o.status, "not_a_dict")
    ELSE NoExc

\* image.refresh(): returns, or raises what its GET raises
RefreshOutcomes == {NoExc, AirUnexpectedResponse(500, "refresh")}

\* a request sent to the backend: its payload, the status answered (0 if the
\* call raised) and whether the caller accepted the answer
Request(op, parts, status, accepted) ==
    [op |-> op, parts |-> parts, status |-> status, accepted |-> accepted]

\* upload status of an image: before any session, while a session is open,
\* and the terminal states reached by complete-upload and by abort-upload
PreUploadStatus == "pre_upload"
ImageStatuses == {PreUploadStatus, "uploading", "completed", "aborted"}

\* the backend's status after it answered a session call
BackendAfter(op, status, st) ==
    IF op = "start-upload" /\ status = 200 THEN "uploading"
    ELSE IF op = "complete-upload" /\ status = 200 THEN "completed"
    ELSE IF op = "abort-upload" /\ status = 204 THEN "aborted"
    ELSE st

RefreshingCalls_StartOnly == {"start-upload"}

\* the session calls that the code follows with image.refresh(): lines 456
\* and 328; abort_multipart_upload (45-82) has no such call
RefreshingCalls == {"start-upload", "complete-upload"}

\* the caller's snapshot after a session call and the refresh that follows
\* it, if any, ended with e
SnapshotAfter(op, local, backend, e) ==
    IF op \in RefreshingCalls /\ e = NoExc THEN backend ELSE local

\* sent: the PUT requests the task has issued, as [part_number,
\* presigned_url, start_offset, part_size]
IdleFuture ==
    [st |-> "idle", attempt |-> 0, etag |-> << >>, header |-> << >>,
     exc |-> NoExc, yielded |-> FALSE, sent |-> {}]

\* mutant of SortByPartNumber: the results stay in completion order
SortByPartNumber_NoSort(seq) == seq

\* list.sort(key=lambda x: x['part_number']): stable insertion sort
RECURSIVE InsertPart(_, _)
InsertPart(sorted, x) ==
    IF sorted = << >> THEN <<x>>
    ELSE IF sorted[Len(sorted)].part_number <= x.part_number
    THEN Append(sorted, x)
    ELSE Append(InsertPart(SubSeq(sorted, 1, Len(sorted) - 1), x),
                sorted[Len(sorted)])
RECURSIVE SortLoop(_, _)
SortLoop(seq, acc) ==
    IF seq = << >> THEN acc ELSE SortLoop(Tail(seq), InsertPart(acc, Head(seq)))
\* mutant of SortByPartNumber: the results are sorted by descending part number
SortByPartNumber_Descending(seq) ==
    [i \in 1..Len(seq) |-> SortLoop(seq, << >>)[Len(seq) + 1 - i]]
SortByPartNumber(seq) == SortLoop(seq, << >>)

\* zip(a, b): the number of pairs
ZipLen(a, b) == IF Len(a) <= Len(b) THEN Len(a) ELSE Len(b)

Running == {k \in DOMAIN futures : futures[k].st = "running"}
Pending == {k \in DOMAIN futures : futures[k].st = "pending"}

\* mutant of HasFailedParts: a single failed part goes unnoticed
HasFailedParts_Several(fp) == Len(fp) > 1

\* line 289: if failed_parts
HasFailedParts(fp) == fp # << >>

\* mutant of Propagated: an exception of the abort call replaces the original
Propagated_AbortWins(original, abort_outcome) ==
    IF abort_outcome.kind = "exception"
    THEN Exception(abort_outcome.exc, 0, "abort")
    ELSE original

\* the exception that leaves the except clause of upload_image (503-507):
\* abort_multipart_upload swallows its own failure, `raise` re-raises
Propagated(original, abort_outcome) == original

\* the warnings abort_multipart_upload issues for an outcome (71-82)
AbortWarnings(o) ==
    IF o.kind = "exception" THEN <<"abort_exception">>
    ELSE IF o.status # 204 THEN <<"abort_status">>
    ELSE << >>

Finish(status, e) ==
    /\ result' = [status |-> status, exc |-> e]
    /\ pc' = "done"

ImgInit ==
    /\ pc = "hash"
    /\ file_size \in MainFileSizes
    /\ max_workers \in 1..MaxWorkers
    /\ upload_id = ""
    /\ part_urls = << >>
    /\ chunk_size = 0
    /\ parts_info = << >>
    /\ futures = << >>
    /\ uploaded_parts = << >>
    /\ failed_parts = << >>
    /\ requests = << >>
    /\ exc = NoExc
    /\ warnings = << >>
    /\ result = [status |-> "running", exc |-> NoExc]
    /\ image_status = PreUploadStatus
    /\ backend_status = PreUploadStatus

\* lines 437-449: os.path.getsize and sha256_file read the file
HashFile ==
    /\ pc = "hash"
    /\ \E ok \in BOOLEAN :
         IF ok THEN pc' = "start" /\ UNCHANGED result
         ELSE Finish("raised", Exception("OSError", 0, ""))
    /\ UNCHANGED <<file_size, max_workers, upload_id, part_urls, chunk_size,
                   parts_info, futures, uploaded_parts, failed_parts,
                   requests, exc, warnings>>
    /\ UNCHANGED <<rd_vars, plan_vars, part_vars, api_vars, snap_vars>>

\* lines 451-455: PATCH start-upload and raise_if_invalid_response
StartUpload ==
    /\ pc = "start"
    /\ \E o \in PatchOutcomes(200), uid \in UploadIds, n \in 0..MaxParts,
          c \in MainChunkSizes :
         /\ requests' = Append(requests, Request("start-upload", << >>, o.status,
                                PatchError(o, 200) = NoExc))
         /\ backend_status' = BackendAfter("start-upload", o.status, backend_status)
         /\ IF PatchError(o, 200) # NoExc
            THEN /\ uid = "" /\ n = 0 /\ c = MULTIPART_CHUNK_SIZE
                 /\ Finish("raised", PatchError(o, 200))
                 /\ UNCHANGED <<upload_id, part_urls, chunk_size>>
            ELSE /\ upload_id' = uid
                 /\ part_urls' = [i \in 1..n |-> i]
                 /\ chunk_size' = c
                 /\ pc' = "refresh"
                 /\ UNCHANGED result
    /\ UNCHANGED <<file_size, max_workers, parts_info, futures, uploaded_parts,
                   failed_parts, exc, warnings>>
    /\ UNCHANGED <<rd_vars, plan_vars, part_vars, api_vars, image_status>>

\* line 456: image.refresh(), outside the try block
RefreshAfterStart ==
    /\ pc = "refresh"
    /\ \E e \in RefreshOutcomes :
         /\ image_status' = SnapshotAfter("start-upload", image_status,
                                          backend_status, e)
         /\ IF e = NoExc THEN pc' = "validate" /\ UNCHANGED result
            ELSE Finish("raised", e)
    /\ UNCHANGED <<file_size, max_workers, upload_id, part_urls, chunk_size,
                   parts_info, futures, uploaded_parts, failed_parts,
                   requests, exc, warnings>>
    /\ UNCHANGED <<rd_vars, plan_vars, part_vars, api_vars, backend_status>>

\* lines 459-478: the error of the start-upload response, NoExc if it has
\* both a session id and presigned URLs
ResponseError(uid, urls) ==
    IF uid = "" THEN AirUnexpectedResponse(0, "no_upload_id")
    ELSE IF urls = << >> THEN AirUnexpectedResponse(0, "no_part_urls")
    ELSE NoExc

InsideTry_Always(e) == TRUE
InsideTry_Never(e) == FALSE

\* whether the check that raises e runs inside the try block of line 473:
\* the upload_id check (465-469) precedes it, the part_urls check (474-478)
\* is its first statement
InsideTry(e) == e = AirUnexpectedResponse(0, "no_part_urls")

ValidateResponse ==
    /\ pc = "validate"
    /\ LET e == ResponseError(upload_id, part_urls) IN
       IF e = NoExc THEN pc' = "plan" /\ UNCHANGED <<exc, result>>
       ELSE IF InsideTry(e)
       THEN /\ exc' = e
            /\ pc' = "except"
            /\ UNCHANGED result
       ELSE Finish("raised", e) /\ UNCHANGED exc
    /\ UNCHANGED <<file_size, max_workers, upload_id, part_urls, chunk_size,
                   parts_info, futures, uploaded_parts, failed_parts,
                   requests, warnings>>
    /\ UNCHANGED <<rd_vars, plan_vars, part_vars, api_vars, snap_vars>>

Sequential_Never(workers) == FALSE

\* line 229: upload_parts_to_s3 uploads on the calling thread, without a pool
Sequential(workers) == workers = 1

\* line 481: calculate_parts_info(file_size, len(part_urls), chunk_size)
PlanParts ==
    /\ pc = "plan"
    /\ LET r == calculate_parts_info(file_size, Len(part_urls), chunk_size)
       IN  IF r.ok
           THEN /\ parts_info' = r.parts
                /\ futures' = [k \in 1..ZipLen(r.parts, part_urls) |-> IdleFuture]
                /\ pc' = IF Sequential(max_workers) THEN "sequential" ELSE "submit"
                /\ UNCHANGED exc
           ELSE /\ exc' = r.err
                /\ pc' = "except"
                /\ UNCHANGED <<parts_info, futures>>
    /\ UNCHANGED <<file_size, max_workers, upload_id, part_urls, chunk_size,
                   uploaded_parts, failed_parts, requests, warnings, result>>
    /\ UNCHANGED <<rd_vars, plan_vars, part_vars, api_vars, snap_vars>>

\* the dict upload_single_part returns for task k (line 155)
PartResult(k) ==
    [part_number |-> parts_info[k].part_number, etag |-> futures[k].etag]

\* lines 231-240: the sequential loop calls upload_single_part for the next
\* pair of zip(parts_info, part_urls)
SeqCall(k) ==
    /\ pc = "sequential"
    /\ k = Len(uploaded_parts) + 1
    /\ futures[k].st = "idle"
    /\ futures' = [futures EXCEPT ![k].st = "running"]
    /\ UNCHANGED <<pc, file_size, max_workers, upload_id, part_urls,
                   chunk_size, parts_info, uploaded_parts, failed_parts,
                   requests, exc, warnings, result>>
    /\ UNCHANGED <<rd_vars, plan_vars, part_vars, api_vars, snap_vars>>

TaskArgs_FirstUrl(k) ==
    [part_number |-> parts_info[k].part_number,
     presigned_url |-> part_urls[1],
     start_offset |-> parts_info[k].start,
     part_size |-> parts_info[k].size]

\* lines 232-240 and 254-264: the arguments of the upload_single_part call
\* for the k-th pair of zip(parts_info, part_urls)
TaskArgs(k) ==
    [part_number |-> parts_info[k].part_number,
     presigned_url |-> part_urls[k],
     start_offset |-> parts_info[k].start,
     part_size |-> parts_info[k].size]

\* one iteration of the retry loop of upload_single_part for task k, with
\* max_retries left at its default (the callers at 232 and 255 do not pass it)
PartAttempt(k) ==
    /\ futures[k].st = "running"
    /\ \E o \in MainPutOutcomes :
         LET r == AttemptStep(futures[k].attempt, DEFAULT_RETRY_ATTEMPTS, o)
         IN  futures' = [futures EXCEPT ![k] =
                 CASE r.next = "continue" ->
                        [@ EXCEPT !.attempt = @ + 1,
                                  !.sent = @ \cup {TaskArgs(k)}]
                   [] r.next = "return" ->
                        [@ EXCEPT !.st = "ok", !.attempt = 0,
                                  !.etag = r.etag, !.header = o.header,
                                  !.sent = @ \cup {TaskArgs(k)}]
                   [] OTHER ->
                        [@ EXCEPT !.st = "failed", !.attempt = 0,
                                  !.exc = r.exc,
                                  !.sent = @ \cup {TaskArgs(k)}]]
    /\ UNCHANGED <<pc, file_size, max_workers, upload_id, part_urls,
                   chunk_size, parts_info, uploaded_parts, failed_parts,
                   requests, exc, warnings, result>>
    /\ UNCHANGED <<rd_vars, plan_vars, part_vars, api_vars, snap_vars>>

\* line 241: the call returned, its result is appended
SeqAppend(k) ==
    /\ pc = "sequential"
    /\ k = Len(uploaded_parts) + 1
    /\ futures[k].st = "ok"
    /\ uploaded_parts' = Append(uploaded_parts, PartResult(k))
    /\ futures' = [futures EXCEPT ![k].yielded = TRUE]
    /\ UNCHANGED <<pc, file_size, max_workers, upload_id, part_urls,
                   chunk_size, parts_info, failed_parts, requests, exc,
                   warnings, result>>
    /\ UNCHANGED <<rd_vars, plan_vars, part_vars, api_vars, snap_vars>>

\* the call raised: the exception leaves upload_parts_to_s3 as it is
SeqRaise(k) ==
    /\ pc = "sequential"
    /\ futures[k].st = "failed"
    /\ exc' = futures[k].exc
    /\ pc' = "except"
    /\ futures' = [futures EXCEPT ![k].yielded = TRUE]
    /\ UNCHANGED <<file_size, max_workers, upload_id, part_urls, chunk_size,
                   parts_info, uploaded_parts, failed_parts, requests,
                   warnings, result>>
    /\ UNCHANGED <<rd_vars, plan_vars, part_vars, api_vars, snap_vars>>

\* lines 243-245: the loop is over, sort and return
SeqReturn ==
    /\ pc = "sequential"
    /\ Len(uploaded_parts) = Cardinality(DOMAIN futures)
    /\ uploaded_parts' = SortByPartNumber(uploaded_parts)
    /\ pc' = "complete"
    /\ UNCHANGED <<file_size, max_workers, upload_id, part_urls, chunk_size,
                   parts_info, futures, failed_parts, requests, exc,
                   warnings, result>>
    /\ UNCHANGED <<rd_vars, plan_vars, part_vars, api_vars, snap_vars>>

\* lines 251-265: every task is submitted to the pool
Submit ==
    /\ pc = "submit"
    /\ futures' = [k \in DOMAIN futures |-> [futures[k] EXCEPT !.st = "pending"]]
    /\ pc' = "collect"
    /\ UNCHANGED <<file_size, max_workers, upload_id, part_urls, chunk_size,
                   parts_info, uploaded_parts, failed_parts, requests, exc,
                   warnings, result>>
    /\ UNCHANGED <<rd_vars, plan_vars, part_vars, api_vars, snap_vars>>

PoolHasIdleThread_Unbounded(running, workers) == TRUE

\* ThreadPoolExecutor(max_workers=max_workers), line 251: the pool never has
\* more than max_workers threads, each running one task at a time
PoolHasIdleThread(running, workers) == running < workers

\* a pool thread takes the oldest queued task that was not cancelled; the
\* pool has max_workers threads (line 251)
WorkerStart(k) ==
    /\ k \in Pending
    /\ \A j \in Pending : k <= j
    /\ PoolHasIdleThread(Cardinality(Running), max_workers)
    /\ futures' = [futures EXCEPT ![k].st = "running"]
    /\ UNCHANGED <<pc, file_size, max_workers, upload_id, part_urls,
                   chunk_size, parts_info, uploaded_parts, failed_parts,
                   requests, exc, warnings, result>>
    /\ UNCHANGED <<rd_vars, plan_vars, part_vars, api_vars, snap_vars>>

CancelIfNotDone_Noop(f) == f

\* lines 277-279: `if not f.done(): f.cancel()`; cancel() takes a queued
\* future out of the pool and has no effect on a running one
CancelIfNotDone(f) ==
    IF f.st = "pending" THEN [f EXCEPT !.st = "cancelled"] ELSE f

\* lines 269-280: as_completed yields a finished future; its result is
\* appended, or its failure recorded, the queued futures cancelled and the
\* loop left
Collect(k) ==
    /\ pc = "collect"
    /\ futures[k].st \in {"ok", "failed"}
    /\ ~futures[k].yielded
    /\ IF futures[k].st = "ok"
       THEN /\ uploaded_parts' = Append(uploaded_parts, PartResult(k))
            /\ futures' = [futures EXCEPT ![k].yielded = TRUE]
            /\ UNCHANGED <<pc, failed_parts>>
       ELSE /\ failed_parts' = Append(failed_parts,
                    [part_number |-> parts_info[k].part_number,
                     error |-> futures[k].exc])
            /\ futures' = [j \in DOMAIN futures |->
                    IF j = k THEN [futures[j] EXCEPT !.yielded = TRUE]
                    ELSE CancelIfNotDone(futures[j])]
            /\ pc' = "shutdown"
            /\ UNCHANGED uploaded_parts
    /\ UNCHANGED <<file_size, max_workers, upload_id, part_urls, chunk_size,
                   parts_info, requests, exc, warnings, result>>
    /\ UNCHANGED <<rd_vars, plan_vars, part_vars, api_vars, snap_vars>>

\* as_completed has yielded every future: the loop ends
CollectEnd ==
    /\ pc = "collect"
    /\ \A k \in DOMAIN futures : futures[k].yielded
    /\ pc' = "shutdown"
    /\ UNCHANGED <<file_size, max_workers, upload_id, part_urls, chunk_size,
                   parts_info, futures, uploaded_parts, failed_parts,
                   requests, exc, warnings, result>>
    /\ UNCHANGED <<rd_vars, plan_vars, part_vars, api_vars, snap_vars>>

PoolShutDown_NoWait(running, pending) == TRUE
PoolShutDown_WaitsForCancelled(running, pending) ==
    /\ running = {} /\ pending = {}
    /\ \A k \in DOMAIN futures : futures[k].st # "cancelled"

\* the end of the with block of line 251: executor.shutdown(wait=True)
\* returns when no task is running or queued
PoolShutDown(running, pending) == running = {} /\ pending = {}

\* the with block of line 251 is left: the pool is shut down, which waits for
\* every task that is running; then lines 288-297
Shutdown ==
    /\ pc = "shutdown"
    /\ PoolShutDown(Running, Pending)
    /\ IF HasFailedParts(failed_parts)
       THEN /\ exc' = AirUnexpectedResponse(0, "failed_parts")
            /\ pc' = "except"
            /\ UNCHANGED uploaded_parts
       ELSE /\ uploaded_parts' = SortByPartNumber(uploaded_parts)
            /\ pc' = "complete"
            /\ UNCHANGED exc
    /\ UNCHANGED <<file_size, max_workers, upload_id, part_urls, chunk_size,
                   parts_info, futures, failed_parts, requests, warnings,
                   result>>
    /\ UNCHANGED <<rd_vars, plan_vars, part_vars, api_vars, snap_vars>>

\* lines 320-327: PATCH complete-upload and raise_if_invalid_response
CompleteUpload ==
    /\ pc = "complete"
    /\ \E o \in PatchOutcomes(200) :
         /\ requests' = Append(requests,
                Request("complete-upload", uploaded_parts, o.status,
                        PatchError(o, 200) = NoExc))
         /\ backend_status' = BackendAfter("complete-upload", o.status,
                                           backend_status)
         /\ IF PatchError(o, 200) # NoExc
            THEN exc' = PatchError(o, 200) /\ pc' = "except"
            ELSE pc' = "refresh_done" /\ UNCHANGED exc
    /\ UNCHANGED <<file_size, max_workers, upload_id, part_urls, chunk_size,
                   parts_info, futures, uploaded_parts, failed_parts,
                   warnings, result>>
    /\ UNCHANGED <<rd_vars, plan_vars, part_vars, api_vars, image_status>>

\* line 328 and line 501: image.refresh(), then return image
RefreshAndReturn ==
    /\ pc = "refresh_done"
    /\ \E e \in RefreshOutcomes :
         /\ image_status' = SnapshotAfter("complete-upload", image_status,
                                          backend_status, e)
         /\ IF e = NoExc
            THEN Finish("returned", NoExc) /\ UNCHANGED exc
            ELSE exc' = e /\ pc' = "except" /\ UNCHANGED result
    /\ UNCHANGED <<file_size, max_workers, upload_id, part_urls, chunk_size,
                   parts_info, futures, uploaded_parts, failed_parts,
                   requests, warnings>>
    /\ UNCHANGED <<rd_vars, plan_vars, part_vars, api_vars, backend_status>>

\* lines 503-507 with abort_multipart_upload (65-82): PATCH abort-upload,
\* warn unless it answered 204, re-raise
AbortAndReraise ==
    /\ pc = "except"
    /\ \E o \in PatchOutcomes(204) :
         /\ requests' = Append(requests, Request("abort-upload", << >>, o.status,
                                AbortWarnings(o) = << >>))
         /\ warnings' = warnings \o AbortWarnings(o)
         /\ backend_status' = BackendAfter("abort-upload", o.status, backend_status)
         /\ image_status' = SnapshotAfter("abort-upload", image_status,
                                          backend_status', NoExc)
         /\ Finish("raised", Propagated(exc, o))
    /\ UNCHANGED <<file_size, max_workers, upload_id, part_urls, chunk_size,
                   parts_info, futures, uploaded_parts, failed_parts, exc>>
    /\ UNCHANGED <<rd_vars, plan_vars, part_vars, api_vars>>

----------------------------------------------------------------------------
\* ImageEndpointAPI.create_v3 and ImageEndpointAPI.upload_v3

ImageForms == {"Image", "PrimaryKey"}
\* What the filepath argument names: a readable regular file, nothing,
\* a directory, or a regular file without read permission.
Paths == {"regular", "missing", "directory", "unreadable"}
WorkerCounts == {-1, 0, 1, 2, MAX_RECOMMENDED_UPLOAD_WORKERS,
                 MAX_RECOMMENDED_UPLOAD_WORKERS + 1}
GetStatuses == {200, 404}
PostStatuses == {201, 400}

ApiRequest(method, status) == [method |-> method, status |-> status]

\* The checks of upload_v3 in their order; NoExc when all of them pass.
ValidationError(workers, path) ==
    IF workers < 1 THEN Exception("ValueError", 0, "max_workers")
    ELSE IF path = "missing" THEN Exception("FileNotFoundError", 0, "filepath")
    ELSE IF path = "directory" THEN Exception("ValueError", 0, "not_regular_file")
    ELSE IF path = "unreadable" THEN Exception("PermissionError", 0, "filepath")
    ELSE NoExc

WorkerWarnings(workers) ==
    IF workers > MAX_RECOMMENDED_UPLOAD_WORKERS THEN << "max_workers_very_high" >>
    ELSE << >>

\* Whether upload_v3 has to fetch the image before it can use it.
NeedsGet(image) == image # "Image"

ApiFinish(status, e) ==
    /\ api_pc' = "done"
    /\ api_result' = [status |-> status, exc |-> e]

ApiInit ==
    /\ api_op \in {"create_v3", "upload_v3"}
    /\ api_image \in (IF api_op = "upload_v3" THEN ImageForms ELSE {"none"})
    /\ api_filepath \in (IF api_op = "upload_v3" THEN Paths ELSE Paths \cup {"None"})
    /\ api_max_workers \in WorkerCounts
    /\ api_pc = (IF api_op = "create_v3" THEN "create" ELSE "resolve")
    /\ api_requests = << >>
    /\ api_warnings = << >>
    /\ api_result = [status |-> "running", exc |-> NoExc]

\* create_v3: POST the image, then upload_v3(image=img, ...) if a filepath
\* was given.
CreateImage ==
    /\ api_pc = "create"
    /\ \E status \in PostStatuses :
         LET e == RaiseIfInvalidResponse(status, 201) IN
         /\ api_requests' = Append(api_requests, ApiRequest("POST", status))
         /\ IF e # NoExc THEN ApiFinish("raised", e) /\ UNCHANGED api_image
            ELSE IF api_filepath = "None"
                 THEN ApiFinish("returned", NoExc) /\ api_image' = "Image"
            ELSE /\ api_pc' = "resolve" /\ api_image' = "Image"
                 /\ UNCHANGED api_result
    /\ UNCHANGED <<api_op, api_filepath, api_max_workers, api_warnings>>
    /\ UNCHANGED <<rd_vars, plan_vars, part_vars, img_vars, snap_vars>>

\* upload_v3: `if not isinstance(image, Image): image = self.get(image)`
ResolveImage ==
    /\ api_pc = "resolve"
    /\ IF NeedsGet(api_image)
       THEN \E status \in GetStatuses :
              LET e == RaiseIfInvalidResponse(status, 200) IN
              /\ api_requests' = Append(api_requests, ApiRequest("GET", status))
              /\ IF e # NoExc THEN ApiFinish("raised", e)
                 ELSE api_pc' = "validate" /\ UNCHANGED api_result
       ELSE api_pc' = "validate" /\ UNCHANGED <<api_requests, api_result>>
    /\ UNCHANGED <<api_op, api_image, api_filepath, api_max_workers, api_warnings>>
    /\ UNCHANGED <<rd_vars, plan_vars, part_vars, img_vars, snap_vars>>

\* upload_v3: the max_workers and filepath checks
ValidateArguments ==
    /\ api_pc = "validate"
    /\ LET e == ValidationError(api_max_workers, api_filepath) IN
       /\ api_warnings' = (IF api_max_workers < 1 THEN api_warnings
                           ELSE api_warnings \o WorkerWarnings(api_max_workers))
       /\ IF e # NoExc THEN ApiFinish("raised", e)
          ELSE api_pc' = "call" /\ UNCHANGED api_result
    /\ UNCHANGED <<api_op, api_image, api_filepath, api_max_workers, api_requests>>
    /\ UNCHANGED <<rd_vars, plan_vars, part_vars, img_vars, snap_vars>>

\* upload_v3: `return image_upload.upload_image(...)`; what follows is Spec.
CallUploadImage ==
    /\ api_pc = "call"
    /\ ApiFinish("upload_image", NoExc)
    /\ UNCHANGED <<api_op, api_image, api_filepath, api_max_workers,
                   api_requests, api_warnings>>
    /\ UNCHANGED <<rd_vars, plan_vars, part_vars, img_vars, snap_vars>>

----------------------------------------------------------------------------
\* FilePartReader (utils.py 256-322) as used by one upload_single_part call

Min(a, b) == IF a <= b THEN a ELSE b

\* __init__ (273-278)
NewReader(start, size) ==
    [start |-> start, size |-> size, remaining |-> size, f |-> "none"]
NoReader == NewReader(0, 0)

\* the last read() call: the requested size, the length of the data
\* returned and `remaining` before the call; len = -1 when there was none
NoRead == [n |-> 0, len |-> -1, before |-> 0]

\* __len__ (289-295)
ReaderLen(r) == r.size

\* number of bytes f.read(n) returns from a file of length flen at pos
FileRead(flen, pos, n) == Min(n, Max(0, flen - pos))

ReadLimit_Unclamped(n, remaining) == IF n < 0 THEN remaining ELSE n

\* lines 315-318: the number of bytes read() asks the file for
ReadLimit(n, remaining) == IF n < 0 THEN remaining ELSE Min(n, remaining)

\* read (297-322): the length of the data returned
ReadLen(r, flen, pos, n) ==
    IF r.remaining <= 0 THEN 0
    ELSE FileRead(flen, pos, ReadLimit(n, r.remaining))

ReadSizes == (-1)..(MaxPartLen + 1)
\* how the attempt ends: a 200 with an ETag, a retryable failure, a terminal
\* failure
AttemptEnds == {"success", "retryable", "terminal"}

ReaderInit ==
    /\ rd_file_len \in 0..MaxFileLen
    /\ \E start \in 0..MaxFileLen, size \in 1..MaxPartLen :
         rd_reader = NewReader(start, size)
    /\ rd_pos = 0
    /\ rd_delivered = 0
    /\ rd_last = NoRead
    /\ rd_attempt = 0
    /\ rd_open = 0
    /\ rd_pc = "idle"

\* line 128: `with FilePartReader(filepath, start_offset, part_size)`:
\* __init__, then __enter__ (280-283) opens the file and seeks to start;
\* open may raise (an OSError, which upload_single_part re-raises at once),
\* seek to an offset >= 0 of a regular file does not
ReaderEnter ==
    /\ rd_pc \in {"idle", "retryable"}
    /\ rd_attempt < MaxAttempts
    /\ rd_attempt' = rd_attempt + 1
    /\ rd_delivered' = 0
    /\ rd_last' = NoRead
    /\ \E opened \in BOOLEAN :
         IF opened
         THEN /\ rd_reader' = [NewReader(rd_reader.start, rd_reader.size)
                                 EXCEPT !.f = "open"]
              /\ rd_pos' = rd_reader.start
              /\ rd_open' = rd_open + 1
              /\ rd_pc' = "reading"
         ELSE /\ rd_reader' = NewReader(rd_reader.start, rd_reader.size)
              /\ rd_pc' = "terminal"
              /\ UNCHANGED <<rd_pos, rd_open>>
    /\ UNCHANGED rd_file_len
    /\ UNCHANGED <<plan_vars, part_vars, img_vars, snap_vars, api_vars>>

\* requests.put calls part_reader.read(n) while it streams the body
ReaderRead ==
    /\ rd_pc = "reading"
    /\ \E n \in ReadSizes :
         LET len == ReadLen(rd_reader, rd_file_len, rd_pos, n) IN
         /\ rd_last' = [n |-> n, len |-> len, before |-> rd_reader.remaining]
         /\ rd_reader' = [rd_reader EXCEPT !.remaining = @ - len]
         /\ rd_pos' = rd_pos + len
         /\ rd_delivered' = rd_delivered + len
    /\ UNCHANGED <<rd_file_len, rd_attempt, rd_open, rd_pc>>
    /\ UNCHANGED <<plan_vars, part_vars, img_vars, snap_vars, api_vars>>

\* the with block is left, by the end of requests.put or by an exception:
\* __exit__ (285-287) closes the handle
ReaderExit ==
    /\ rd_pc = "reading"
    /\ \E how \in AttemptEnds : rd_pc' = how
    /\ rd_reader' = [rd_reader EXCEPT !.f = IF @ = "open" THEN "closed" ELSE @]
    /\ rd_open' = IF rd_reader.f = "open" THEN rd_open - 1 ELSE rd_open
    /\ UNCHANGED <<rd_file_len, rd_pos, rd_delivered, rd_last, rd_attempt>>
    /\ UNCHANGED <<plan_vars, part_vars, img_vars, snap_vars, api_vars>>

----------------------------------------------------------------------------
\* Specifications

PlanIdle == pl_in = [file_size |-> 0, num_parts |-> 0, chunk_size |-> 0]
            /\ pl_out = NoPlan
PartIdle == /\ sp_part_number = 0
            /\ sp_max_retries = 0 /\ sp_attempt = 0 /\ sp_puts = 0
            /\ sp_sleeps = << >> /\ sp_outcomes = << >>
            /\ sp_result = "idle"
            /\ sp_value = [part_number |-> 0, etag |-> << >>, exc |-> NoExc]
ImgIdle ==  /\ pc = "idle" /\ file_size = 0 /\ max_workers = 1
            /\ upload_id = "" /\ part_urls = << >> /\ chunk_size = 0
            /\ parts_info = << >> /\ futures = << >>
            /\ uploaded_parts = << >> /\ failed_parts = << >>
            /\ requests = << >> /\ exc = NoExc /\ warnings = << >>
            /\ result = [status |-> "idle", exc |-> NoExc]
            /\ image_status = "idle" /\ backend_status = "idle"

ApiIdle ==  /\ api_op = "idle" /\ api_image = "none" /\ api_filepath = "None"
            /\ api_max_workers = 1 /\ api_pc = "idle"
            /\ api_requests = << >> /\ api_warnings = << >>
            /\ api_result = [status |-> "idle", exc |-> NoExc]

ReaderIdle == /\ rd_file_len = 0 /\ rd_reader = NoReader /\ rd_pos = 0
              /\ rd_delivered = 0 /\ rd_last = NoRead /\ rd_attempt = 0
              /\ rd_open = 0 /\ rd_pc = "off"

InitPlan == PlanInit /\ PartIdle /\ ImgIdle /\ ApiIdle /\ ReaderIdle
NextPlan == Plan
SpecPlan == InitPlan /\ [][NextPlan]_vars

InitPart == PartInit /\ PlanIdle /\ ImgIdle /\ ApiIdle /\ ReaderIdle
NextPart ==
    \/ SinglePartAttempt
    \/ SinglePartLoopEnd
SpecPart == InitPart /\ [][NextPart]_vars

Init == ImgInit /\ PlanIdle /\ PartIdle /\ ApiIdle /\ ReaderIdle
Next ==
    \/ HashFile
    \/ StartUpload
    \/ RefreshAfterStart
    \/ ValidateResponse
    \/ PlanParts
    \/ \E k \in DOMAIN futures : SeqCall(k)
    \/ \E k \in DOMAIN futures : PartAttempt(k)
    \/ \E k \in DOMAIN futures : SeqAppend(k)
    \/ \E k \in DOMAIN futures : SeqRaise(k)
    \/ \E k \in DOMAIN futures : WorkerStart(k)
    \/ \E k \in DOMAIN futures : Collect(k)
    \/ SeqReturn
    \/ Submit
    \/ CollectEnd
    \/ Shutdown
    \/ CompleteUpload
    \/ RefreshAndReturn
    \/ AbortAndReraise
Spec == Init /\ [][Next]_vars

\* Every HTTP request returns or times out, every sleep ends and every
\* thread that can run is scheduled: a step that stays possible is taken.
FairSpec == Init /\ [][Next]_vars /\ WF_vars(Next)

InitApi == ApiInit /\ PlanIdle /\ PartIdle /\ ImgIdle /\ ReaderIdle
NextApi ==
    \/ CreateImage
    \/ ResolveImage
    \/ ValidateArguments
    \/ CallUploadImage
SpecApi == InitApi /\ [][NextApi]_vars

InitReader == ReaderInit /\ PlanIdle /\ PartIdle /\ ImgIdle /\ ApiIdle
NextReader ==
    \/ ReaderEnter
    \/ ReaderRead
    \/ ReaderExit
SpecReader == InitReader /\ [][NextReader]_vars

----------------------------------------------------------------------------
\* Properties of calculate_parts_info, under SpecPlan

PlanCalled == pl_out # NoPlan

\* the part count and chunk size are consistent with the file size
PlanConsistent ==
    /\ pl_in.file_size > 0 /\ pl_in.num_parts > 0 /\ pl_in.chunk_size > 0
    /\ (pl_in.num_parts - 1) * pl_in.chunk_size < pl_in.file_size
    /\ pl_in.file_size <= pl_in.num_parts * pl_in.chunk_size

\* the plan has num_parts parts that sum to file_size, all but the last of
\* size chunk_size
PlanPartitions ==
    /\ pl_out.ok
    /\ Len(pl_out.parts) = pl_in.num_parts
    /\ SumSizes(pl_out.parts) = pl_in.file_size
    /\ \A i \in 1..(Len(pl_out.parts) - 1) :
         pl_out.parts[i].size = pl_in.chunk_size

\* C7 as stated: for every consistent (fileSize, partCount, chunkSize) the
\* plan has partCount parts whose sizes sum to fileSize, every part but the
\* last of size chunkSize.
C7_AnyConsistentInputPartitions ==
    (PlanCalled /\ PlanConsistent) => PlanPartitions

\* C7 amended: the same, for consistent inputs with a single part or a chunk
\* size of at least the storage minimum (MULTIPART_MIN_PART_SIZE); with
\* several parts and a smaller chunk size the call raises instead.
C7_ConsistentInputPartitions ==
    /\ (PlanCalled /\ PlanConsistent
        /\ (pl_in.num_parts = 1
            \/ pl_in.chunk_size >= MULTIPART_MIN_PART_SIZE))
       => PlanPartitions
    /\ (PlanCalled /\ PlanConsistent /\ pl_in.num_parts >= 2
        /\ pl_in.chunk_size < MULTIPART_MIN_PART_SIZE)
       => ~pl_out.ok

\* a consistent plan of several parts whose last part is shorter than a chunk
C7_Witness ==
    /\ PlanCalled /\ PlanConsistent /\ pl_out.ok
    /\ pl_in.num_parts >= 3
    /\ pl_out.parts[pl_in.num_parts].size < pl_in.chunk_size

\* C8: the storage minimum is enforced on all and only the non-last parts:
\* the call raises whenever a non-last part is below MULTIPART_MIN_PART_SIZE,
\* the below-minimum error never names the last part, and a last part that is
\* below the minimum but larger than 0 does not make the call raise.
C8_MinimumOnNonLastPartsOnly ==
    PlanCalled =>
      /\ (pl_in.num_parts >= 2 /\ pl_in.chunk_size < MULTIPART_MIN_PART_SIZE)
         => (~pl_out.ok /\ pl_out.err.type = "AirUnexpectedResponse")
      /\ pl_out.err.detail = "below_minimum"
         => pl_out.err.status < pl_in.num_parts
      /\ (/\ pl_in.num_parts >= 1
          /\ (pl_in.num_parts = 1
              \/ pl_in.chunk_size >= MULTIPART_MIN_PART_SIZE)
          /\ pl_in.file_size - (pl_in.num_parts - 1) * pl_in.chunk_size > 0)
         => pl_out.ok

\* an accepted plan of several parts whose last part is below the minimum
C8_Witness ==
    /\ PlanCalled /\ pl_out.ok
    /\ pl_in.num_parts >= 2
    /\ pl_out.parts[pl_in.num_parts].size < MULTIPART_MIN_PART_SIZE
    /\ pl_out.parts[pl_in.num_parts].size > 0

\* C9: the call raises whenever a part, the last included, would have a size
\* <= 0: for num_parts >= 1 it raises whenever file_size <=
\* (num_parts - 1) * chunk_size, so neither a zero-byte last part nor a
\* zero-length file is planned.
C9_NonPositivePartRejected ==
    PlanCalled =>
      /\ (pl_in.num_parts >= 1
          /\ pl_in.file_size <= (pl_in.num_parts - 1) * pl_in.chunk_size)
         => (~pl_out.ok /\ pl_out.err.type = "AirUnexpectedResponse")
      /\ (pl_in.num_parts >= 2 /\ pl_in.chunk_size <= 0) => ~pl_out.ok
      /\ (pl_in.num_parts >= 1 /\ pl_in.file_size = 0) => ~pl_out.ok
      /\ pl_out.ok => \A i \in 1..Len(pl_out.parts) : pl_out.parts[i].size > 0

\* a last part of exactly zero bytes after full non-last parts is rejected
C9_Witness ==
    /\ PlanCalled /\ ~pl_out.ok
    /\ pl_in.num_parts >= 2
    /\ pl_in.chunk_size >= MULTIPART_MIN_PART_SIZE
    /\ pl_in.file_size = (pl_in.num_parts - 1) * pl_in.chunk_size
    /\ pl_out.err = AirUnexpectedResponse(pl_in.num_parts, "invalid_size")

\* the plan was accepted for a part count of at least 1
PlanAccepted == PlanCalled /\ pl_out.ok /\ pl_in.num_parts >= 1

LastPart == pl_out.parts[Len(pl_out.parts)]

\* C26: every accepted plan, for consistent inputs or not, has the part
\* numbers 1..partCount in order and byte ranges that are contiguous,
\* pairwise disjoint and cover exactly [0, fileSize): part 1 starts at 0,
\* each part starts where the previous one ends, every part is non-empty,
\* and the last one ends at fileSize.
C26_AcceptedPlanIsContiguousCover ==
    PlanAccepted =>
        /\ Len(pl_out.parts) = pl_in.num_parts
        /\ \A i \in 1..Len(pl_out.parts) :
             /\ pl_out.parts[i].part_number = i
             /\ pl_out.parts[i].size > 0
        /\ pl_out.parts[1].start = 0
        /\ \A i \in 1..(Len(pl_out.parts) - 1) :
             pl_out.parts[i + 1].start
                = pl_out.parts[i].start + pl_out.parts[i].size
        /\ LastPart.start + LastPart.size = pl_in.file_size
        /\ SumSizes(pl_out.parts) = pl_in.file_size

\* an accepted plan of several parts for inconsistent inputs
C26_Witness ==
    /\ PlanAccepted
    /\ pl_in.num_parts = 2
    /\ ~PlanConsistent

\* the backend's part count is too small for the file
TooFewParts == pl_in.file_size > pl_in.num_parts * pl_in.chunk_size

\* C27 as stated: every accepted plan has all part sizes at most chunkSize,
\* and a part count too small for the file is rejected.
C27_AcceptedPartsAtMostChunk ==
    /\ PlanAccepted =>
         \A i \in 1..Len(pl_out.parts) : pl_out.parts[i].size <= pl_in.chunk_size
    /\ (PlanCalled /\ pl_in.num_parts >= 1 /\ TooFewParts) => ~pl_out.ok

\* C27 amended: in every accepted plan every part but the last has size
\* chunkSize and the last has size fileSize - (partCount-1)*chunkSize, which
\* is larger than chunkSize exactly when the part count is too small for the
\* file; such a part count is not rejected: with a positive chunk size the
\* plan is accepted whenever there is one part, or the chunk size is at least
\* the storage minimum.
C27_LastPartTakesTheRemainder ==
    /\ PlanAccepted =>
         /\ \A i \in 1..(Len(pl_out.parts) - 1) :
              pl_out.parts[i].size = pl_in.chunk_size
         /\ LastPart.size
              = pl_in.file_size - (pl_in.num_parts - 1) * pl_in.chunk_size
         /\ (LastPart.size > pl_in.chunk_size) <=> TooFewParts
    /\ (PlanCalled /\ pl_in.num_parts >= 1 /\ TooFewParts
        /\ pl_in.chunk_size > 0
        /\ (pl_in.num_parts = 1 \/ pl_in.chunk_size >= MULTIPART_MIN_PART_SIZE))
       => pl_out.ok

\* an accepted plan of MaxParts parts whose last part is larger than a chunk
C27_Witness ==
    /\ PlanAccepted
    /\ pl_in.num_parts = MaxParts
    /\ LastPart.size > pl_in.chunk_size

----------------------------------------------------------------------------
\* Properties of upload_single_part, under SpecPart

\* the retryable outcomes: connection error, timeout, chunked-encoding error,
\* HTTP 429/502/503/504
RetryableOutcome(o) ==
    \/ o.kind = "exception"
       /\ o.exc \in {"ConnectionError", "Timeout", "ChunkedEncodingError"}
    \/ o.kind = "response" /\ o.status \in {429, 502, 503, 504}

AllRetryable == \A i \in 1..Len(sp_outcomes) : RetryableOutcome(sp_outcomes[i])

\* C10: if every attempt ends in a retryable outcome, exactly max_retries PUT
\* attempts are made, the sleep after attempt index a (a = 0 .. max_retries-2)
\* lasts DEFAULT_RETRY_BACKOFF_FACTOR * 2^a seconds, no sleep follows the
\* final attempt, and then an exception propagates to the caller.
C10_RetryBound ==
    AllRetryable =>
      /\ sp_puts <= sp_max_retries
      /\ \A a \in 1..Len(sp_sleeps) :
           sp_sleeps[a] = DEFAULT_RETRY_BACKOFF_FACTOR * (2 ^ (a - 1))
      /\ sp_result = "running" => Len(sp_sleeps) = sp_puts
      /\ sp_result # "running" =>
           /\ sp_puts = sp_max_retries
           /\ Len(sp_sleeps) = Max(sp_max_retries - 1, 0)
           /\ sp_result = "raised"
           /\ sp_value.exc # NoExc

\* retries were exhausted after at least three retryable attempts
C10_Witness ==
    /\ AllRetryable
    /\ sp_result = "raised"
    /\ sp_max_retries >= 3
    /\ sp_puts = sp_max_retries
    /\ Len(sp_sleeps) = sp_max_retries - 1

\* the terminal outcomes: an exception of another class, a status outside
\* {200, 429, 502, 503, 504}, or a 200 whose ETag header is missing or
\* holds nothing but quotes
TerminalOutcome(o) ==
    \/ o.kind = "exception"
       /\ o.exc \notin {"ConnectionError", "Timeout", "ChunkedEncodingError"}
    \/ o.kind = "response" /\ o.status \notin {200, 429, 502, 503, 504}
    \/ o.kind = "response" /\ o.status = 200
       /\ \A x \in 1..Len(o.header) : o.header[x] = Q

\* the error a terminal outcome is raised as
TerminalError(o) ==
    IF o.kind = "exception" THEN Exception(o.exc, 0, "")
    ELSE IF o.status # 200
    THEN AirUnexpectedResponse(o.status, "unexpected_status")
    ELSE AirUnexpectedResponse(0, "no_etag")

\* C11: an attempt that ends in a terminal outcome (HTTP 403 or any other
\* status outside {200, 429, 502, 503, 504}, a 200 without an ETag, an
\* exception that is no transport error) raises its error at once: it is the
\* last attempt, no PUT and no sleep follows it, however many attempts remain.
C11_TerminalOutcomeRaisesAtOnce ==
    \A i \in 1..Len(sp_outcomes) :
        TerminalOutcome(sp_outcomes[i]) =>
          /\ i = Len(sp_outcomes)
          /\ sp_puts = i
          /\ Len(sp_sleeps) = i - 1
          /\ sp_result = "raised"
          /\ sp_value.exc = TerminalError(sp_outcomes[i])

\* HTTP 403 on the first of at least three allowed attempts: one PUT, no sleep
C11_Witness ==
    /\ sp_max_retries >= 3
    /\ Len(sp_outcomes) = 1
    /\ sp_outcomes[1].status = 403
    /\ sp_result = "raised"
    /\ sp_puts = 1
    /\ sp_sleeps = << >>

\* the ETag `etag` is the header value `header` without the quotes around it
StrippedFrom(etag, header) ==
    /\ etag # << >>
    /\ Head(etag) # Q /\ etag[Len(etag)] # Q
    /\ \E i, j \in 1..Len(header) :
         /\ SubSeq(header, i, j) = etag
         /\ \A x \in 1..Len(header) : (x < i \/ x > j) => header[x] = Q

\* C12: an attempt is followed by another one exactly when its outcome is
\* retryable and fewer than max_retries attempts have been made; when attempt
\* k succeeds after k-1 retryable failures the call returns {part_number,
\* etag} after exactly k PUT attempts.
C12_RetryExactlyWhenRetryable ==
    /\ sp_puts = Len(sp_outcomes)
    /\ \A i \in 1..Len(sp_outcomes) :
         LET followed == i < Len(sp_outcomes) \/ sp_result = "running"
         IN  followed <=> (RetryableOutcome(sp_outcomes[i]) /\ i < sp_max_retries)
    /\ sp_result = "running" => sp_attempt = Len(sp_outcomes)
    /\ sp_result = "returned" =>
         LET k == Len(sp_outcomes)
         IN  /\ k >= 1 /\ k <= sp_max_retries
             /\ sp_outcomes[k].kind = "response" /\ sp_outcomes[k].status = 200
             /\ \A i \in 1..(k - 1) : RetryableOutcome(sp_outcomes[i])
             /\ sp_value.part_number = sp_part_number
             /\ StrippedFrom(sp_value.etag, sp_outcomes[k].header)
             /\ sp_value.exc = NoExc
             /\ sp_puts = k

\* the third attempt succeeded after a timeout and an HTTP 503
C12_Witness ==
    /\ sp_result = "returned"
    /\ Len(sp_outcomes) = 3
    /\ sp_outcomes[1].exc = "Timeout"
    /\ sp_outcomes[2].status = 503
    /\ sp_value.etag = <<"a">>
    /\ sp_puts = 3

\* C13: when the retries are exhausted the error raised is that of the final
\* attempt: its transport exception if it raised one, the invalid-response
\* error with its status if it answered 429/502/503/504, whatever the
\* earlier attempts ended in.
C13_ExhaustionRaisesFinalOutcome ==
    LET n == Len(sp_outcomes)
    IN  (n >= 1 /\ n = sp_max_retries /\ RetryableOutcome(sp_outcomes[n])) =>
          /\ sp_result = "raised"
          /\ sp_outcomes[n].kind = "exception"
             => sp_value.exc = Exception(sp_outcomes[n].exc, 0, "")
          /\ sp_outcomes[n].kind = "response"
             => sp_value.exc
                  = AirUnexpectedResponse(sp_outcomes[n].status,
                                          "unexpected_status")

\* retries exhausted by an HTTP 503 after an earlier timeout
C13_Witness ==
    /\ sp_result = "raised"
    /\ Len(sp_outcomes) = sp_max_retries
    /\ sp_max_retries >= 3
    /\ sp_outcomes[1].exc = "Timeout"
    /\ sp_outcomes[sp_max_retries].status = 503
    /\ sp_value.exc = AirUnexpectedResponse(503, "unexpected_status")

----------------------------------------------------------------------------
\* Properties of ImageEndpointAPI.upload_v3, under SpecApi

InvalidUploadArguments ==
    ValidationError(api_max_workers, api_filepath) # NoExc

\* C14: in upload_v3, a max_workers below 1, a missing file, a path that is
\* not a regular file, or an unreadable file is rejected with its own error
\* before any HTTP request has been issued, whether the image argument is an
\* Image object or a primary key: with such arguments no request is ever
\* sent, and the call ends by raising the validation error.
C14_InvalidArgumentsRejectedBeforeAnyRequest ==
    (api_op = "upload_v3" /\ InvalidUploadArguments) =>
        /\ api_requests = << >>
        /\ api_pc = "done" =>
             api_result = [status |-> "raised",
                           exc |-> ValidationError(api_max_workers, api_filepath)]

\* the create POST was answered 201: the image exists on the backend
ImageCreated ==
    \E i \in 1..Len(api_requests) :
        api_requests[i].method = "POST" /\ api_requests[i].status = 201

\* C30 as stated: create_v3 called with a filepath validates the upload
\* parameters (max_workers >= 1, the file exists, is a regular file, is
\* readable) before it creates the image: with parameters that fail that
\* validation, no image is ever created on the backend by the create POST.
C30_CreateValidatesBeforePost ==
    (api_op = "create_v3" /\ api_filepath # "None" /\ InvalidUploadArguments)
        => ~ImageCreated

----------------------------------------------------------------------------
\* Properties of upload_image, under Spec

Requested(op) == \E i \in 1..Len(requests) : requests[i].op = op
Answered(op, status) ==
    \E i \in 1..Len(requests) :
        requests[i].op = op /\ requests[i].status = status

Accepted(op) ==
    \E i \in 1..Len(requests) : requests[i].op = op /\ requests[i].accepted

\* start-upload answered 200 with a session id: the backend session is open
SessionOpen == Accepted("start-upload") /\ upload_id # ""

Planned == DOMAIN futures # {}
SomePartFailed == \E k \in DOMAIN futures : futures[k].st = "failed"
AllPartsOk == Planned /\ \A k \in DOMAIN futures : futures[k].st = "ok"

\* C1: in every upload (max_workers = 1 or > 1) in which some planned part
\* fails terminally, complete-upload is never requested and abort-upload is
\* requested exactly once: at most once at any time, once when upload_image
\* has ended.
C1_AbortOnceNoCompleteOnPartFailure ==
    SomePartFailed =>
      /\ Count(requests, "complete-upload") = 0
      /\ Count(requests, "abort-upload") <= 1
      /\ pc = "done" =>
           /\ Count(requests, "abort-upload") = 1
           /\ result.status = "raised"

\* a pooled upload of three parts has ended after part 2 failed
C1_Witness ==
    /\ pc = "done"
    /\ max_workers > 1
    /\ Cardinality(DOMAIN futures) >= 3
    /\ futures[2].st = "failed"
    /\ Count(requests, "abort-upload") = 1

\* C2 as stated (its safety half; that the session is always ended falls with
\* C5): once the session is open, complete-upload and abort-upload are each
\* requested at most once, and abort-upload is never requested in an
\* execution whose complete-upload succeeded (answered 200 with a JSON object).
C2_CompleteAndAbortExclusive ==
    SessionOpen =>
      /\ Count(requests, "complete-upload") <= 1
      /\ Count(requests, "abort-upload") <= 1
      /\ ~(Accepted("complete-upload") /\ Requested("abort-upload"))

\* C3: whenever complete-upload is requested, its parts list has exactly one
\* entry per part number 1..n (n the number of presigned URLs), in ascending
\* part_number order, each with the non-empty ETag, quotes stripped, that the
\* storage answered for that part; for max_workers = 1 and for every
\* completion order of a pooled upload.
C3_CompletePayloadOrdered ==
    \A r \in 1..Len(requests) :
        requests[r].op = "complete-upload" =>
          /\ Len(requests[r].parts) = Len(part_urls)
          /\ Len(part_urls) >= 1
          /\ \A j \in 1..Len(requests[r].parts) :
               /\ requests[r].parts[j].part_number = j
               /\ StrippedFrom(requests[r].parts[j].etag, futures[j].header)

\* complete-upload was requested for a pooled upload of three parts, one of
\* them answered with a quoted ETag
C3_Witness ==
    /\ Requested("complete-upload")
    /\ max_workers > 1
    /\ Len(part_urls) >= 3
    /\ \E j \in DOMAIN futures : futures[j].header = <<Q, "a", Q>>
    /\ \E j \in DOMAIN futures : futures[j].header = <<"b">>

\* C4 as stated: complete-upload is requested if and only if every planned
\* part upload returned successfully; upload_image returns the image only
\* after complete-upload was answered 200; on any failure with the session
\* open it requests abort-upload and raises instead of returning.
C4_CompleteIffAllPartsElseAbort ==
    /\ Requested("complete-upload") => AllPartsOk
    /\ (pc = "done" /\ AllPartsOk) => Requested("complete-upload")
    /\ result.status = "returned" => Answered("complete-upload", 200)
    /\ (pc = "done" /\ SessionOpen /\ result.status # "returned")
       => (result.status = "raised" /\ Requested("abort-upload"))

\* C5 as stated: once start-upload has answered 200 with a session id, every
\* failure of a later step has abort-upload requested before the exception
\* reaches the caller.
C5_AbortAfterSessionOpen ==
    (SessionOpen /\ result.status = "raised") => Requested("abort-upload")

\* C6: when the abort-upload call of the cleanup fails (raises, or answers a
\* status other than 204), upload_image still raises exactly the exception
\* that triggered the cleanup; the abort failure is only a warning.
C6_AbortFailureNeverMasks ==
    \A r \in 1..Len(requests) :
        (requests[r].op = "abort-upload" /\ requests[r].status # 204) =>
          /\ result.status = "raised"
          /\ result.exc = exc
          /\ exc # NoExc
          /\ Len(warnings) = 1

\* the abort call raised during the cleanup of a failed complete-upload
C6_Witness ==
    /\ pc = "done"
    /\ Answered("abort-upload", 0)
    /\ warnings = <<"abort_exception">>
    /\ Answered("complete-upload", 500)
    /\ result.exc = AirUnexpectedResponse(500, "unexpected_status")

\* a part PUT has been issued: some upload_single_part call has started
PartPutIssued ==
    \E k \in DOMAIN futures : futures[k].st \in {"running", "ok", "failed"}

\* C15: while no session id exists (hashing or the size lookup failed,
\* start-upload was not answered with an accepted 200, or the 200 response
\* carried no upload_id), no abort-upload request and no part PUT is ever
\* issued, and upload_image can only end by raising.
C15_NoCleanupWithoutSessionId ==
    upload_id = "" =>
        /\ ~Requested("abort-upload")
        /\ ~Requested("complete-upload")
        /\ ~PartPutIssued
        /\ pc = "done" => result.status = "raised"

\* start-upload answered 200 without an upload_id and upload_image raised
C15_Witness ==
    /\ pc = "done"
    /\ Accepted("start-upload")
    /\ upload_id = ""
    /\ result = [status |-> "raised",
                 exc |-> AirUnexpectedResponse(0, "no_upload_id")]

\* the start-upload response was accepted and carries no presigned URLs
MissingPartUrls == Accepted("start-upload") /\ part_urls = << >>

\* C16: when the start-upload response is missing the presigned URL list,
\* with or without a session id, the error reaches the caller without any
\* cleanup: no abort-upload request is made.
C16_MissingUrlsNeverAbort ==
    MissingPartUrls => ~Requested("abort-upload")

\* C16 (amended): a start-upload response without presigned URLs never leads
\* to a part PUT or to complete-upload.  When it carries no session id
\* either, the missing-session-id error is raised with no abort-upload
\* request; when it carries a session id, the missing-URL error is raised
\* after exactly one abort-upload request.
C16_MissingUrlsAbortIffSessionId ==
    /\ MissingPartUrls => ~PartPutIssued /\ ~Requested("complete-upload")
    /\ (MissingPartUrls /\ upload_id = "") => ~Requested("abort-upload")
    /\ \A e \in {AirUnexpectedResponse(0, "no_upload_id"),
                 AirUnexpectedResponse(0, "no_part_urls")} :
         (result.status = "raised" /\ result.exc = e) =>
            /\ e = ResponseError(upload_id, part_urls)
            /\ Count(requests, "abort-upload") = (IF upload_id = "" THEN 0 ELSE 1)

\* a session id without presigned URLs: abort-upload was requested and the
\* missing-URL error raised
C16_Witness ==
    /\ pc = "done"
    /\ MissingPartUrls
    /\ upload_id # ""
    /\ Answered("abort-upload", 204)
    /\ result = [status |-> "raised",
                 exc |-> AirUnexpectedResponse(0, "no_part_urls")]

\* upload_parts_to_s3 has raised its aggregate error (lines 289-293), whose
\* message is built from failed_parts
AggregateRaised ==
    /\ pc \in {"except", "done"}
    /\ exc = AirUnexpectedResponse(0, "failed_parts")

Listed(k) ==
    \E i \in 1..Len(failed_parts) :
        failed_parts[i] = [part_number |-> parts_info[k].part_number,
                           error |-> futures[k].exc]

\* C17: the aggregate error of a parallel upload lists every part that
\* failed terminally, with its cause, including the parts that failed in
\* other workers at or after the moment the first failure was observed.
C17_AggregateListsEveryFailedPart ==
    AggregateRaised =>
        \A k \in DOMAIN futures : futures[k].st = "failed" => Listed(k)

\* C18: after a failed upload for which abort-upload was performed, the
\* caller's image object has been refreshed: its upload status equals the
\* backend's status after the abort, and it does not show the in-progress
\* status while the backend session is already aborted.
C18_SnapshotRefreshedAfterAbort ==
    (pc = "done" /\ result.status = "raised" /\ Answered("abort-upload", 204)) =>
        /\ image_status = backend_status
        /\ ~(image_status = "uploading" /\ backend_status = "aborted")

\* C19: after upload_image returns normally, the returned image object's
\* upload status equals the backend's status following the accepted
\* complete-upload (the snapshot was refreshed after the completion call)
\* and differs from its pre-upload status.
C19_ReturnedSnapshotIsFinal ==
    result.status = "returned" =>
        /\ Accepted("complete-upload")
        /\ backend_status = BackendAfter("complete-upload", 200, PreUploadStatus)
        /\ image_status = backend_status
        /\ image_status # PreUploadStatus

\* a multi-part upload returned the image
C19_Witness ==
    /\ pc = "done"
    /\ result.status = "returned"
    /\ Len(uploaded_parts) = MaxParts
    /\ image_status = "completed"

\* the parts for which upload_single_part has been called
Attempted == {k \in DOMAIN futures : futures[k].st \in {"running", "ok", "failed"}}

\* C20: with max_workers = 1 at most one part PUT is in flight at any time
\* and parts are attempted in ascending part-number order: part k+1 is not
\* attempted before part k has returned successfully, and once a part has
\* failed terminally no later part is ever attempted.
C20_SequentialOneAtATimeInOrder ==
    max_workers = 1 =>
        /\ Cardinality(Running) <= 1
        /\ \A k \in Attempted :
             /\ parts_info[k].part_number = k
             /\ \A j \in 1..(k - 1) : futures[j].st = "ok"
        /\ \A j \in DOMAIN futures :
             futures[j].st = "failed" =>
                \A k \in DOMAIN futures : k > j => futures[k].st = "idle"

\* a sequential upload whose second part failed after the first succeeded,
\* with a third part left untouched
C20_Witness ==
    /\ max_workers = 1
    /\ pc = "done"
    /\ Cardinality(DOMAIN futures) = MaxParts
    /\ futures[1].st = "ok"
    /\ futures[2].st = "failed"
    /\ futures[MaxParts].st = "idle"

\* C21: with max_workers = m > 1, at most m upload_single_part calls are
\* executing at any time, whatever the number of parts (also with more parts
\* than workers).
C21_AtMostMaxWorkersRunning ==
    max_workers > 1 => Cardinality(Running) <= max_workers

\* more parts than workers: the pool is full and a task is still queued
C21_Witness ==
    /\ max_workers > 1
    /\ Cardinality(DOMAIN futures) > max_workers
    /\ Cardinality(Running) = max_workers
    /\ Pending # {}

\* the states of a future whose upload_single_part call has not started
NotStarted == {"idle", "pending", "cancelled"}

\* C22: in the parallel path, once the first failed part has been observed
\* and the queued tasks cancelled, no part upload that had not started ever
\* starts, the running ones are left alone and go on to their own end, and
\* no further result is collected.
C22_AfterFirstFailure ==
    [][failed_parts # << >> =>
         /\ Pending = {}
         /\ \A k \in DOMAIN futures :
              /\ futures[k].st \in NotStarted => futures'[k].st = futures[k].st
              /\ futures[k].st = "running" =>
                    futures'[k].st \in {"running", "ok", "failed"}
              /\ futures'[k].yielded = futures[k].yielded
         /\ uploaded_parts' = uploaded_parts
         /\ failed_parts' = failed_parts]_vars

\* part 1 failed and was observed while part 2 was running and part 3
\* queued: part 3 was cancelled, part 2 ran to its end and was not collected
C22_Witness ==
    /\ pc = "except"
    /\ 3 \in DOMAIN futures
    /\ Len(failed_parts) = 1
    /\ futures[1].st = "failed" /\ futures[1].yielded
    /\ futures[2].st = "ok" /\ ~futures[2].yielded
    /\ futures[3].st = "cancelled"

\* every PUT request issued so far for a part
PutsSent == UNION {futures[k].sent : k \in DOMAIN futures}

\* C23: in both modes every PUT attempt for part number k, the first and
\* every retry, goes to the presigned URL at index k-1 of the backend's list
\* (position k here) with the byte range starting at (k-1)*chunk_size, and
\* no position of the list is used for two different parts.
C23_PartUsesItsOwnUrlAndOffset ==
    /\ \A p \in PutsSent :
         /\ p.part_number \in DOMAIN part_urls
         /\ p.presigned_url = part_urls[p.part_number]
         /\ p.start_offset = (p.part_number - 1) * chunk_size
    /\ \A j, k \in DOMAIN futures :
         \A p \in futures[j].sent, q \in futures[k].sent :
            p.presigned_url = q.presigned_url => p.part_number = q.part_number

\* the last part of a parallel upload has been retried and has ended
C23_Witness ==
    /\ max_workers > 1
    /\ MaxParts \in DOMAIN futures
    /\ futures[MaxParts].st = "failed"
    /\ futures[MaxParts].exc.type = "Timeout"
    /\ futures[MaxParts].sent # {}
    /\ \A k \in DOMAIN futures : futures[k].sent # {}

\* upload_parts_to_s3 has been left, by return or by exception
PartsPhaseOver == Planned /\ pc \in {"complete", "refresh_done", "except", "done"}

\* C25: when abort-upload or complete-upload is requested no part upload is
\* executing in any worker, and none starts afterwards: every part upload
\* that was running when a failure was observed has finished before the
\* failure leaves upload_parts_to_s3.
C25_NoPartRunningOnceSessionEnds ==
    /\ []((PartsPhaseOver \/ Requested("abort-upload")
                           \/ Requested("complete-upload"))
             => Running = {} /\ Pending = {})
    /\ [][PartsPhaseOver => \A k \in DOMAIN futures : futures'[k] = futures[k]]_vars

\* abort-upload was requested after part 1 failed while part 2 was still
\* running: part 2 has ended, uncollected
C25_Witness ==
    /\ pc = "done"
    /\ Answered("abort-upload", 204)
    /\ 2 \in DOMAIN futures
    /\ futures[1].st = "failed" /\ futures[1].yielded
    /\ futures[2].st = "failed" /\ ~futures[2].yielded
    /\ futures[2].sent # {}

\* The complete-upload payload as a function of the per-part outcomes alone:
\* one entry per planned part, in part order, with the ETag that part's
\* upload_single_part returned. Neither max_workers nor the order in which
\* the results were collected appears in it.
PayloadOfPartOutcomes ==
    [k \in 1..Len(part_urls) |-> [part_number |-> k, etag |-> futures[k].etag]]

\* C29: the backend-visible session outcome is the same function of the
\* per-part outcomes for max_workers = 1 and for max_workers > 1, under every
\* interleaving: when all parts succeeded, complete-upload is requested
\* exactly once and its payload is PayloadOfPartOutcomes; when some part
\* failed, abort-upload is requested exactly once and complete-upload never.
C29_SessionOutcomeIndependentOfMode ==
    /\ \A r \in 1..Len(requests) :
         requests[r].op = "complete-upload" =>
           AllPartsOk /\ requests[r].parts = PayloadOfPartOutcomes
    /\ (pc = "done" /\ AllPartsOk) => Count(requests, "complete-upload") = 1
    /\ (pc = "done" /\ SomePartFailed) =>
         /\ Count(requests, "abort-upload") = 1
         /\ Count(requests, "complete-upload") = 0

\* a pooled upload of three parts with different ETags has returned after its
\* complete-upload was accepted
C29_Witness ==
    /\ pc = "done"
    /\ result.status = "returned"
    /\ max_workers > 1
    /\ Len(part_urls) = 3
    /\ Accepted("complete-upload")
    /\ futures[1].etag # futures[2].etag

\* C28: provided every HTTP request eventually returns or times out, every
\* call of upload_image eventually ends, by returning or by raising, for
\* every max_workers, part count and pattern of part outcomes; the result
\* collection loop and the pool shutdown never block, also after queued tasks
\* were cancelled.
C28_UploadImageTerminates ==
    <>(pc = "done" /\ result.status \in {"returned", "raised"})

\* a parallel upload that ended after a queued task had been cancelled
C28_Witness ==
    /\ pc = "done"
    /\ max_workers > 1
    /\ result.status = "raised"
    /\ \E k \in DOMAIN futures : futures[k].st = "cancelled"
    /\ \E k \in DOMAIN futures : futures[k].st = "ok" /\ ~futures[k].yielded

----------------------------------------------------------------------------
\* Properties of FilePartReader, under SpecReader

\* the bytes of the part that the file holds
Available == Min(rd_reader.size, Max(0, rd_file_len - rd_reader.start))

\* C24: every attempt, first or retry, has its own handle positioned at the
\* start offset with the full size still to send; the reader reports length
\* size, never delivers more than size bytes in total whatever the read
\* calls, has delivered all the bytes of the part that the file holds when a
\* read for a non-zero count comes back empty, returns empty data once size
\* bytes were delivered, and its handle is closed when the attempt has ended.
C24_ReaderBoundedAndScoped ==
    /\ rd_pc = "reading" =>
         /\ rd_open = 1 /\ rd_reader.f = "open"
         /\ ReaderLen(rd_reader) = rd_delivered + rd_reader.remaining
         /\ rd_pos = rd_reader.start + rd_delivered
         /\ rd_last = NoRead => rd_reader.remaining = rd_reader.size
    /\ rd_delivered <= rd_reader.size
    /\ rd_delivered <= Available
    /\ (rd_last.len = 0 /\ rd_last.n # 0) => rd_delivered = Available
    /\ (rd_last # NoRead /\ rd_last.before = 0) => rd_last.len = 0
    /\ rd_pc \in AttemptEnds => rd_open = 0 /\ rd_reader.f # "open"

\* a retry that delivered the whole part, was read once more and got empty
\* data, and has ended
C24_Witness ==
    /\ rd_attempt = MaxAttempts
    /\ rd_pc = "success"
    /\ rd_reader.size > 1
    /\ rd_delivered = rd_reader.size
    /\ rd_last.before = 0 /\ rd_last.n > 0

====
